---- MODULE Spec2Model ----
(***************************************************************************)
(* m2h: Markdown to HTML converter (src/m2h.cpp).                          *)
(*                                                                         *)
(* Text is a sequence of one-character strings.  Markup that the program   *)
(* inserts ("<strong>", "<hr>", ...) is kept as one atomic element, so the *)
(* output is a sequence of tokens rather than a flat character string.     *)
(***************************************************************************)
EXTENDS Integers, Sequences, FiniteSets, TLC

(***************************************************************************)
(* Bounds of the model.                                                    *)
(***************************************************************************)
\* lines read by markdown_to_html in the scanner-only specification
MaxLines == 5
\* lines read by markdown_to_html in the whole-program specification
MaxMainLines == 3
\* headings given to generate_toc_html in the TOC-only specification
MaxToc == 5
\* lines read by markdown_to_html in the headings specification
MaxHeadingLines == 4

(***************************************************************************)
(* Character classes (<cctype>, std::regex ECMAScript classes).            *)
(***************************************************************************)
UpperChars == <<"A", "B", "C", "D", "E", "F", "G", "H", "I", "J", "K", "L", "M",
                "N", "O", "P", "Q", "R", "S", "T", "U", "V", "W", "X", "Y", "Z">>
LowerChars == <<"a", "b", "c", "d", "e", "f", "g", "h", "i", "j", "k", "l", "m",
                "n", "o", "p", "q", "r", "s", "t", "u", "v", "w", "x", "y", "z">>
DigitChars == <<"0", "1", "2", "3", "4", "5", "6", "7", "8", "9">>

\* the backquote character (a TLA+ string cannot hold it)
BackTick == "BACKTICK"

Range(s) == {s[i] : i \in 1..Len(s)}

\* ::tolower
tolower(c) ==
    IF c \in Range(UpperChars)
    THEN LowerChars[CHOOSE i \in 1..Len(UpperChars) : UpperChars[i] = c]
    ELSE c

\* isalnum
isalnum(c) == c \in Range(UpperChars) \cup Range(LowerChars) \cup Range(DigitChars)

\* regex \s
IsSpace(c) == c \in {" ", "\t", "\n", "\r", "\f"}

\* regex . (any character but a line terminator)
IsDot(c) == c \notin {"\n", "\r"}

AllIn(s, from, to, Test(_)) == \A i \in from..to : Test(s[i])

\* s with the first n elements removed
Drop(s, n) == SubSeq(s, n + 1, Len(s))

\* std::to_string(int) for a non-negative value
RECURSIVE to_string(_)
to_string(n) ==
    IF n < 10 THEN <<DigitChars[n + 1]>>
    ELSE to_string(n \div 10) \o <<DigitChars[(n % 10) + 1]>>

(***************************************************************************)
(* sanitize_id, generate_unique_id, clean_header_text, process_table_line  *)
(***************************************************************************)
IdCharAllowed(c) == isalnum(c) \/ c = "-" \/ c = "_"

sanitize_id(text) ==
    LET lowered  == [i \in 1..Len(text) |-> tolower(text[i])]
        replaced == [i \in 1..Len(text) |-> IF lowered[i] = " " THEN "-" ELSE lowered[i]]
    IN  SelectSeq(replaced, IdCharAllowed)

\* generate_unique_id returning the counter before the increment (id_counts[id]++)
generate_unique_id_PostIncrement(base_id, id_counts) ==
    LET id == sanitize_id(base_id)
    IN  IF id \in DOMAIN id_counts
        THEN LET count == id_counts[id]
             IN  [id_counts |-> [id_counts EXCEPT ![id] = count + 1],
                  id        |-> id \o <<"-">> \o to_string(count)]
        ELSE [id_counts |-> [x \in (DOMAIN id_counts) \cup {id} |->
                                IF x = id THEN 0 ELSE id_counts[x]],
              id        |-> id]

\* The registry after the call and the id returned, as a record.
generate_unique_id(base_id, id_counts) ==
    LET id == sanitize_id(base_id)
    IN  IF id \in DOMAIN id_counts
        THEN LET count == id_counts[id] + 1
             IN  [id_counts |-> [id_counts EXCEPT ![id] = count],
                  id        |-> id \o <<"-">> \o to_string(count)]
        ELSE [id_counts |-> [x \in (DOMAIN id_counts) \cup {id} |->
                                IF x = id THEN 0 ELSE id_counts[x]],
              id        |-> id]

\* text.find("**", pos): first index >= pos of two adjacent stars, 0 if none
FindStars(text, pos) ==
    LET hits == {i \in pos..(Len(text) - 1) : text[i] = "*" /\ text[i + 1] = "*"}
    IN  IF hits = {} THEN 0 ELSE CHOOSE i \in hits : \A j \in hits : i <= j

RECURSIVE EraseStars(_, _)
EraseStars(text, pos) ==
    LET p == FindStars(text, pos)
    IN  IF p = 0 THEN text
        ELSE EraseStars(SubSeq(text, 1, p - 1) \o Drop(text, p + 1), p)

clean_header_text(text) == EraseStars(text, 1)

process_table_line(line) ==
    LET p1 == IF line # <<>> /\ Head(line) = "|" THEN Tail(line) ELSE line
    IN  IF p1 # <<>> /\ p1[Len(p1)] = "|" THEN SubSeq(p1, 1, Len(p1) - 1) ELSE p1

(***************************************************************************)
(* The regular expressions of markdown_to_html, matched as regex_match and *)
(* regex_replace match them.                                               *)
(***************************************************************************)
IsPrefixAt(s, i, lit) ==
    /\ i + Len(lit) - 1 <= Len(s)
    /\ \A k \in 1..Len(lit) : s[i + k - 1] = lit[k]

\* first index >= from holding character c, Len(s) + 1 if there is none
FirstAt(s, from, c) ==
    LET hits == {i \in from..Len(s) : s[i] = c}
    IN  IF hits = {} THEN Len(s) + 1 ELSE CHOOSE i \in hits : \A j \in hits : i <= j

\* number of leading characters of s that satisfy Test
LeadCount(s, Test(_)) ==
    LET stops == {i \in 1..Len(s) : ~Test(s[i])}
    IN  IF stops = {} THEN Len(s) ELSE (CHOOSE i \in stops : \A j \in stops : i <= j) - 1

IsHash(c) == c = "#"
IsRuleChar(c) == c \in {"-", "*", "_"}
IsDividerHead(c) == c \in {"-", ":"}
IsDividerTail(c) == c \in {"-", ":", "|"} \/ IsSpace(c)

\* horizontal_rule_regex  ^\s*[-*_]{3,}\s*$
horizontal_rule_regex(line) ==
    \E i \in 0..Len(line) : \E j \in i..Len(line) :
        /\ AllIn(line, 1, i, IsSpace)
        /\ j - i >= 3
        /\ AllIn(line, i + 1, j, IsRuleChar)
        /\ AllIn(line, j + 1, Len(line), IsSpace)

\* code_block_regex  ^```(.*)
code_block_regex(line) ==
    /\ IsPrefixAt(line, 1, <<BackTick, BackTick, BackTick>>)
    /\ AllIn(line, 4, Len(line), IsDot)

\* match[1] of code_block_regex
code_block_label(line) == Drop(line, 3)

\* table_divider_regex  ^\s*\|?[-:]+\|[-:\s\|]+\|?\s*$
table_divider_regex(line) ==
    \E i \in 0..Len(line) : \E p \in {i, i + 1} : \E j \in (p + 1)..Len(line) :
        /\ AllIn(line, 1, i, IsSpace)
        /\ p = i + 1 => (p <= Len(line) /\ line[p] = "|")
        /\ AllIn(line, p + 1, j, IsDividerHead)
        /\ j + 1 <= Len(line) /\ line[j + 1] = "|"
        /\ j + 2 <= Len(line)
        /\ AllIn(line, j + 2, Len(line), IsDividerTail)

\* line.find('|') != npos
HasPipe(line) == \E i \in 1..Len(line) : line[i] = "|"

\* one regex ^#+\s+(.*) for every number of hashes: no upper limit on the level
HeadingLevel_AnyHashes(line) ==
    LET n == LeadCount(line, IsHash)
        w == LeadCount(Drop(line, n), IsSpace)
    IN  IF /\ n >= 1
           /\ w >= 1
           /\ AllIn(line, n + w + 1, Len(line), IsDot)
        THEN n ELSE 0

\* h1_regex .. h6_regex  ^#{n}\s+(.*) tried for n = 1, 2, .. 6 in turn: the
\* level that matches, 0 if none does
HeadingLevel(line) ==
    LET n == LeadCount(line, IsHash)
        w == LeadCount(Drop(line, n), IsSpace)
    IN  IF /\ n \in 1..6
           /\ w >= 1
           /\ AllIn(line, n + w + 1, Len(line), IsDot)
        THEN n ELSE 0

\* match[1] of the heading regex that matched
HeadingText(line) ==
    LET n == LeadCount(line, IsHash)
        w == LeadCount(Drop(line, n), IsSpace)
    IN  Drop(line, n + w)

\* One match of  open ([^excl]+) close  starting at i: the index of its last
\* character, 0 if there is no match at i.
MatchEnd(s, i, open, excl, close) ==
    LET a == i + Len(open)
        j == FirstAt(s, a, excl)
    IN  IF IsPrefixAt(s, i, open) /\ j > a /\ IsPrefixAt(s, j, close)
        THEN j + Len(close) - 1 ELSE 0

\* std::regex_replace(s, open([^excl]+)close, pre $1 post) from index i on
RECURSIVE ReplaceFrom(_, _, _, _, _, _, _)
ReplaceFrom(s, i, open, excl, close, pre, post) ==
    IF i > Len(s) THEN <<>>
    ELSE LET e == MatchEnd(s, i, open, excl, close)
         IN  IF e = 0
             THEN <<s[i]>> \o ReplaceFrom(s, i + 1, open, excl, close, pre, post)
             ELSE pre \o SubSeq(s, i + Len(open), e - Len(close)) \o post
                      \o ReplaceFrom(s, e + 1, open, excl, close, pre, post)

\* bold_regex  \*\*([^\*]+)\*\*  ->  <strong>$1</strong>
ReplaceBold(s) ==
    ReplaceFrom(s, 1, <<"*", "*">>, "*", <<"*", "*">>, <<"<strong>">>, <<"</strong>">>)

\* italic_regex  \*([^\*]+)\*  ->  <em>$1</em>
ReplaceItalic(s) == ReplaceFrom(s, 1, <<"*">>, "*", <<"*">>, <<"<em>">>, <<"</em>">>)

\* inline_code_regex  `([^`]+)`  ->  <code>$1</code>
ReplaceInlineCode(s) == ReplaceFrom(s, 1, <<BackTick>>, BackTick, <<BackTick>>, <<"<code>">>, <<"</code>">>)

\* link_regex  \[([^\]]+)\]\(([^\)]+)\)  ->  <a href="$2">$1</a>
RECURSIVE ReplaceLinkFrom(_, _)
ReplaceLinkFrom(s, i) ==
    IF i > Len(s) THEN <<>>
    ELSE LET j == FirstAt(s, i + 1, "]")
             k == FirstAt(s, j + 2, ")")
         IN  IF /\ s[i] = "["
                /\ j > i + 1
                /\ IsPrefixAt(s, j, <<"]", "(">>)
                /\ k > j + 2
                /\ k <= Len(s)
             THEN <<"<a href=\"">> \o SubSeq(s, j + 2, k - 1) \o <<"\">">>
                      \o SubSeq(s, i + 1, j - 1) \o <<"</a>">>
                      \o ReplaceLinkFrom(s, k + 1)
             ELSE <<s[i]>> \o ReplaceLinkFrom(s, i + 1)

ReplaceLink(s) == ReplaceLinkFrom(s, 1)

\* inline formatting of a paragraph line: link, bold, italic, inline code
FormatParagraph(line) == ReplaceInlineCode(ReplaceItalic(ReplaceBold(ReplaceLink(line))))

\* inline formatting of a table cell: bold, italic, inline code, link
FormatCell(cell) == ReplaceLink(ReplaceInlineCode(ReplaceItalic(ReplaceBold(cell))))

IsBlankChar(c) == c \in {" ", "\t"}

\* cell.erase(0, find_first_not_of(" \t")); cell.erase(find_last_not_of(" \t") + 1)
TrimCell(cell) ==
    LET a == LeadCount(cell, IsBlankChar)
        keep == {i \in 1..Len(cell) : ~IsBlankChar(cell[i])}
        b == IF keep = {} THEN 0 ELSE CHOOSE i \in keep : \A j \in keep : j <= i
    IN  SubSeq(cell, a + 1, b)

\* while (std::getline(row_stream, cell, '|')): the cells of one table line
RECURSIVE SplitCells(_)
SplitCells(s) ==
    IF s = <<>> THEN <<>>
    ELSE LET p == FirstAt(s, 1, "|")
         IN  <<FormatCell(TrimCell(SubSeq(s, 1, p - 1)))>> \o SplitCells(Drop(s, p))

\* the row buffered for a line that holds a pipe
RowCells(line) == SplitCells(process_table_line(line))

(***************************************************************************)
(* Input alphabet: the lines a document is made of, and the command lines. *)
(***************************************************************************)
LineBlank     == <<>>
LineRule      == <<"-", "-", "-">>
LineFence     == <<BackTick, BackTick, BackTick>>
LineH1A       == <<"#", " ", "A">>
LineH1A1      == <<"#", " ", "A", "-", "1">>
LineH2B       == <<"#", "#", " ", "*", "*", "B", "*", "*", " ", "c">>
LineRow       == <<"a", "|", "*", "b", "*">>
LineDivider   == <<"-", "|", "-">>
LineEmptyRow  == <<"|">>
LineParagraph == <<"x">>

Lines == {LineBlank, LineRule, LineFence, LineH1A, LineH1A1, LineH2B,
          LineRow, LineDivider, LineEmptyRow, LineParagraph}

ArgvChoices == { <<>>,
                 <<"-h">>,
                 <<"-m", "in.md">>,
                 <<"-m", "in.md", "-o", "out.html">>,
                 <<"--output", "d/out.html", "--markdown", "in.md">>,
                 <<"-o", "out.html", "-m", "in.md", "--help">> }

OutputFiles == <<"html", "css", "js">>

DocumentTitle == <<"D", "o", "c", "u", "m", "e", "n", "t">>

(***************************************************************************)
(* State.                                                                  *)
(***************************************************************************)
VARIABLES
    pc,             \* position in main / markdown_to_html / generate_toc_html
    input_state,    \* what the file system answered about the input file
    argv,           \* command line (without argv[0])
    markdown_path,  \* main: fs::path markdown_path ("" is the empty path)
    output_path,    \* main: fs::path output_path
    exit_status,    \* process exit status once the run has ended, -1 before
    stderr_lines,   \* number of error reports written to std::cerr
    printed,        \* "Successfully generated:" and the three paths printed
    dir_created,    \* fs::create_directories created the output directory
    attempts,       \* files whose std::ofstream was constructed, in order
    disk,           \* output files opened for writing and written
    line,           \* markdown_to_html: std::string line
    nread,          \* number of lines std::getline has delivered
    html,           \* markdown_to_html: std::string html, as tokens
    toc,            \* std::vector<TocEntry> toc
    in_code_block,  \* markdown_to_html: bool in_code_block
    in_table,       \* markdown_to_html: bool in_table
    code_lang,      \* markdown_to_html: std::string code_lang
    table_rows,     \* markdown_to_html: table_rows
    id_counts,      \* markdown_to_html: std::map<std::string, int> id_counts
    toc_html,       \* generate_toc_html: std::string html, as tokens
    current_level,  \* generate_toc_html: int current_level
    toc_i,          \* generate_toc_html: index of entry in the for loop
    title           \* main: std::string title

scanVars == <<line, nread, html, toc, in_code_block, in_table, code_lang,
              table_rows, id_counts>>
tocVars  == <<toc_html, current_level, toc_i>>
mainVars == <<input_state, argv, markdown_path, output_path, exit_status, stderr_lines,
              printed, dir_created, attempts, disk, title>>
vars     == <<pc, scanVars, tocVars, mainVars>>

EmptyMap == [x \in {} |-> 0]

(***************************************************************************)
(* markdown_to_html                                                        *)
(***************************************************************************)
\* for (row : table_rows) of the flush inside the line loop
RECURSIVE RenderRows(_, _)
RenderRows(rows, first_row) ==
    IF rows = <<>> THEN <<>>
    ELSE LET row == Head(rows)
             tag == IF first_row THEN "<th>" ELSE "<td>"
         IN  IF row = <<>> THEN RenderRows(Tail(rows), first_row)
             ELSE <<<<"<tr>">>>> \o [i \in 1..Len(row) |-> <<tag, row[i]>>]
                      \o <<<<"</tr>">>>> \o RenderRows(Tail(rows), FALSE)

\* the table emitted when a pipe-free line ends an active table
FlushTable(rows) == <<<<"<table>">>>> \o RenderRows(rows, TRUE) \o <<<<"</table>">>>>

\* the row loop with first_row never reset: every row rendered as header cells
RECURSIVE RenderRowsAtEnd_AllHeader(_, _)
RenderRowsAtEnd_AllHeader(rows, first_row) ==
    IF rows = <<>> THEN <<>>
    ELSE LET row == Head(rows)
             tag == IF first_row THEN "<th>" ELSE "<td>"
         IN  IF row = <<>> THEN RenderRowsAtEnd_AllHeader(Tail(rows), first_row)
             ELSE <<<<"<tr>">>>> \o [i \in 1..Len(row) |-> <<tag, row[i]>>]
                      \o <<<<"</tr>">>>> \o RenderRowsAtEnd_AllHeader(Tail(rows), first_row)

\* for (row : table_rows) of the flush after the line loop
RECURSIVE RenderRowsAtEnd(_, _)
RenderRowsAtEnd(rows, first_row) ==
    IF rows = <<>> THEN <<>>
    ELSE LET row == Head(rows)
             tag == IF first_row THEN "<th>" ELSE "<td>"
         IN  IF row = <<>> THEN RenderRowsAtEnd(Tail(rows), first_row)
             ELSE <<<<"<tr>">>>> \o [i \in 1..Len(row) |-> <<tag, row[i]>>]
                      \o <<<<"</tr>">>>> \o RenderRowsAtEnd(Tail(rows), FALSE)

\* the table emitted at the end of the input
FlushTableAtEnd(rows) ==
    <<<<"<table>">>>> \o RenderRowsAtEnd(rows, TRUE) \o <<<<"</table>">>>>

\* a fence line that always opens a code block (the else branch missing)
FenceLine_AlwaysOpen(l) ==
    /\ in_code_block' = TRUE
    /\ code_lang' = code_block_label(l)
    /\ html' = Append(html, <<"<pre><code>", code_block_label(l)>>)
    /\ UNCHANGED <<toc, in_table, table_rows, id_counts>>

\* a fence line: opens the code block or closes it
FenceLine(l) ==
    /\ in_code_block' = ~in_code_block
    /\ IF ~in_code_block
       THEN /\ code_lang' = code_block_label(l)
            /\ html' = Append(html, <<"<pre><code>", code_block_label(l)>>)
       ELSE /\ code_lang' = code_lang
            /\ html' = Append(html, <<"</code></pre>">>)
    /\ UNCHANGED <<toc, in_table, table_rows, id_counts>>

\* the heading element given the base id instead of the de-duplicated id
HeadingLine_BaseIdInBody(l, level, h) ==
    LET text == clean_header_text(HeadingText(l))
        r    == generate_unique_id(text, id_counts)
    IN  /\ id_counts' = r.id_counts
        /\ toc' = Append(toc, [level |-> level, text |-> text, id |-> r.id])
        /\ html' = Append(h, <<"<h>", level, sanitize_id(text), text>>)

\* a heading line of the given level, appended to the body h
HeadingLine(l, level, h) ==
    LET text == clean_header_text(HeadingText(l))
        r    == generate_unique_id(text, id_counts)
    IN  /\ id_counts' = r.id_counts
        /\ toc' = Append(toc, [level |-> level, text |-> text, id |-> r.id])
        /\ html' = Append(h, <<"<h>", level, r.id, text>>)

\* any other line, appended to the body h
ParagraphLine(l, h) ==
    LET processed_line == FormatParagraph(l)
    IN  /\ html' = IF processed_line # <<>> THEN Append(h, <<"<p>", processed_line>>) ELSE h
        /\ UNCHANGED <<toc, id_counts>>

\* the divider test without !table_rows.empty(): any divider starts a table
TableOrTextLine_DividerAlways(l) ==
    LET divider == table_divider_regex(l)
    IN  IF divider /\ ~in_table
        THEN /\ in_table' = TRUE
             /\ UNCHANGED <<html, toc, table_rows, id_counts>>
        ELSE IF ~divider /\ HasPipe(l)
        THEN /\ table_rows' = Append(table_rows, RowCells(l))
             /\ UNCHANGED <<html, toc, in_table, id_counts>>
        ELSE LET flush == ~divider /\ in_table
                 h     == IF flush THEN html \o FlushTable(table_rows) ELSE html
             IN  /\ table_rows' = IF flush THEN <<>> ELSE table_rows
                 /\ in_table' = IF flush THEN FALSE ELSE in_table
                 /\ IF HeadingLevel(l) # 0
                    THEN HeadingLine(l, HeadingLevel(l), h)
                    ELSE ParagraphLine(l, h)

\* the continue of the divider branch placed after the inner if: a divider
\* that starts no table is skipped
TableOrTextLine_DividerSkipped(l) ==
    LET divider == table_divider_regex(l)
    IN  IF divider
        THEN /\ in_table' = (in_table \/ table_rows # <<>>)
             /\ UNCHANGED <<html, toc, table_rows, id_counts>>
        ELSE IF HasPipe(l)
        THEN /\ table_rows' = Append(table_rows, RowCells(l))
             /\ UNCHANGED <<html, toc, in_table, id_counts>>
        ELSE LET flush == in_table
                 h     == IF flush THEN html \o FlushTable(table_rows) ELSE html
             IN  /\ table_rows' = IF flush THEN <<>> ELSE table_rows
                 /\ in_table' = IF flush THEN FALSE ELSE in_table
                 /\ IF HeadingLevel(l) # 0
                    THEN HeadingLine(l, HeadingLevel(l), h)
                    ELSE ParagraphLine(l, h)

\* a line outside a code block: divider, table row, table flush, heading, paragraph
TableOrTextLine(l) ==
    LET divider == table_divider_regex(l)
    IN  IF divider /\ ~in_table /\ table_rows # <<>>
        THEN /\ in_table' = TRUE
             /\ UNCHANGED <<html, toc, table_rows, id_counts>>
        ELSE IF ~divider /\ HasPipe(l)
        THEN /\ table_rows' = Append(table_rows, RowCells(l))
             /\ UNCHANGED <<html, toc, in_table, id_counts>>
        ELSE LET flush == ~divider /\ in_table
                 h     == IF flush THEN html \o FlushTable(table_rows) ELSE html
             IN  /\ table_rows' = IF flush THEN <<>> ELSE table_rows
                 /\ in_table' = IF flush THEN FALSE ELSE in_table
                 /\ IF HeadingLevel(l) # 0
                    THEN HeadingLine(l, HeadingLevel(l), h)
                    ELSE ParagraphLine(l, h)

\* the loop body without the if (in_code_block) branch
ProcessLine_NoCodeBranch(l) ==
    /\ line' = l
    /\ nread' = nread + 1
    /\ IF l = <<>>
       THEN UNCHANGED <<html, toc, in_code_block, in_table, code_lang, table_rows, id_counts>>
       ELSE IF horizontal_rule_regex(l)
       THEN /\ html' = Append(html, <<"<hr>">>)
            /\ UNCHANGED <<toc, in_code_block, in_table, code_lang, table_rows, id_counts>>
       ELSE IF code_block_regex(l)
       THEN FenceLine(l)
       ELSE /\ TableOrTextLine(l)
            /\ UNCHANGED <<in_code_block, code_lang>>

\* one iteration of while (std::getline(iss, line))
ProcessLine(l) ==
    /\ line' = l
    /\ nread' = nread + 1
    /\ IF l = <<>>
       THEN UNCHANGED <<html, toc, in_code_block, in_table, code_lang, table_rows, id_counts>>
       ELSE IF horizontal_rule_regex(l)
       THEN /\ html' = Append(html, <<"<hr>">>)
            /\ UNCHANGED <<toc, in_code_block, in_table, code_lang, table_rows, id_counts>>
       ELSE IF code_block_regex(l)
       THEN FenceLine(l)
       ELSE IF in_code_block
       THEN /\ html' = Append(html, <<"text", l>>)
            /\ UNCHANGED <<toc, in_code_block, in_table, code_lang, table_rows, id_counts>>
       ELSE /\ TableOrTextLine(l)
            /\ UNCHANGED <<in_code_block, code_lang>>

ScanLine(limit) ==
    /\ pc = "scan"
    /\ nread < limit
    /\ \E l \in Lines : ProcessLine(l)
    /\ UNCHANGED <<pc, tocVars, mainVars>>

\* std::getline fails: the table still buffered is emitted and html returned
ScanEnd ==
    /\ pc = "scan"
    /\ html' = IF in_table /\ table_rows # <<>>
               THEN html \o FlushTableAtEnd(table_rows) ELSE html
    /\ pc' = "toc"
    /\ UNCHANGED <<line, nread, toc, in_code_block, in_table, code_lang,
                   table_rows, id_counts, tocVars, mainVars>>

ScanInit ==
    /\ line = <<>>
    /\ nread = 0
    /\ html = <<>>
    /\ toc = <<>>
    /\ in_code_block = FALSE
    /\ in_table = FALSE
    /\ code_lang = <<>>
    /\ table_rows = <<>>
    /\ id_counts = EmptyMap

(***************************************************************************)
(* generate_toc_html                                                       *)
(***************************************************************************)
TocHeader == <<"<div class=\"toc\"><h2>Table of Contents</h2><ul>">>
TocFooter == <<"</ul></div>">>
TocOpen   == <<"<ul>">>
TocClose  == <<"</ul>">>

TocItem(entry) == <<"<li>", entry.id, entry.text>>

\* generate_toc_html without the early return for an empty heading sequence
TocBegin_NoEmptyCheck ==
    /\ pc = "toc"
    /\ toc_html' = <<TocHeader>>
    /\ current_level' = 1
    /\ toc_i' = 1
    /\ pc' = "toc_loop"
    /\ UNCHANGED <<scanVars, mainVars>>

\* if (toc.empty()) return ""; otherwise the container is opened
TocBegin ==
    /\ pc = "toc"
    /\ IF toc = <<>>
       THEN /\ toc_html' = <<>>
            /\ pc' = "mkdir"
            /\ UNCHANGED <<current_level, toc_i>>
       ELSE /\ toc_html' = <<TocHeader>>
            /\ current_level' = 1
            /\ toc_i' = 1
            /\ pc' = "toc_loop"
    /\ UNCHANGED <<scanVars, mainVars>>

\* the opening loop written as an if: one list opened whatever the jump
TocOpenLevel_Single ==
    /\ pc = "toc_loop"
    /\ toc_i <= Len(toc)
    /\ current_level < toc[toc_i].level
    /\ toc_html' = Append(toc_html, TocOpen)
    /\ current_level' = toc[toc_i].level
    /\ UNCHANGED <<pc, toc_i, scanVars, mainVars>>

\* one iteration of while (current_level < entry.level)
TocOpenLevel ==
    /\ pc = "toc_loop"
    /\ toc_i <= Len(toc)
    /\ current_level < toc[toc_i].level
    /\ toc_html' = Append(toc_html, TocOpen)
    /\ current_level' = current_level + 1
    /\ UNCHANGED <<pc, toc_i, scanVars, mainVars>>

\* one iteration of while (current_level > entry.level)
TocCloseLevel ==
    /\ pc = "toc_loop"
    /\ toc_i <= Len(toc)
    /\ current_level > toc[toc_i].level
    /\ toc_html' = Append(toc_html, TocClose)
    /\ current_level' = current_level - 1
    /\ UNCHANGED <<pc, toc_i, scanVars, mainVars>>

\* the list item of the entry, once both while loops have ended
TocEmitItem ==
    /\ pc = "toc_loop"
    /\ toc_i <= Len(toc)
    /\ current_level = toc[toc_i].level
    /\ toc_html' = Append(toc_html, TocItem(toc[toc_i]))
    /\ toc_i' = toc_i + 1
    /\ UNCHANGED <<pc, current_level, scanVars, mainVars>>

\* the final loop written as an if: one closing tag whatever the depth
TocFinalClose_Once ==
    /\ pc = "toc_loop"
    /\ toc_i > Len(toc)
    /\ current_level > 1
    /\ toc_html' = Append(toc_html, TocClose)
    /\ current_level' = 1
    /\ UNCHANGED <<pc, toc_i, scanVars, mainVars>>

\* one iteration of while (current_level > 1) after the for loop
TocFinalClose ==
    /\ pc = "toc_loop"
    /\ toc_i > Len(toc)
    /\ current_level > 1
    /\ toc_html' = Append(toc_html, TocClose)
    /\ current_level' = current_level - 1
    /\ UNCHANGED <<pc, toc_i, scanVars, mainVars>>

\* html += "</ul>\n</div>\n"; return html
TocEnd ==
    /\ pc = "toc_loop"
    /\ toc_i > Len(toc)
    /\ current_level <= 1
    /\ toc_html' = Append(toc_html, TocFooter)
    /\ pc' = "mkdir"
    /\ UNCHANGED <<current_level, toc_i, scanVars, mainVars>>

(***************************************************************************)
(* parse_args, write_file, main                                            *)
(***************************************************************************)
\* exit status of a process ended by std::terminate (SIGABRT)
AbortStatus == 134

\* the for loop of parse_args from index i on; help = show_help, return false
RECURSIVE ParseLoop(_, _, _, _)
ParseLoop(args, i, m, o) ==
    IF i > Len(args) THEN [help |-> FALSE, markdown_path |-> m, output_path |-> o]
    ELSE LET arg == args[i]
         IN  IF arg \in {"-h", "--help"}
             THEN [help |-> TRUE, markdown_path |-> m, output_path |-> o]
             ELSE IF arg \in {"-m", "--markdown"} /\ i + 1 <= Len(args)
             THEN ParseLoop(args, i + 2, args[i + 1], o)
             ELSE IF arg \in {"-o", "--output"} /\ i + 1 <= Len(args)
             THEN ParseLoop(args, i + 2, m, args[i + 1])
             ELSE ParseLoop(args, i + 1, m, o)

\* fs::path::parent_path for the output paths of ArgvChoices
parent_path(p) == IF p = "d/out.html" THEN "d" ELSE ""

\* the run ends with the given status
Exit(status) ==
    /\ exit_status' = status
    /\ pc' = "done"

ParseArgs ==
    /\ pc = "parse_args"
    /\ LET r == ParseLoop(argv, 1, "", "")
       IN  /\ markdown_path' = r.markdown_path
           /\ output_path' = r.output_path
           /\ IF r.help
              THEN Exit(1) /\ UNCHANGED stderr_lines
              ELSE IF r.markdown_path = "" \/ r.output_path = ""
              THEN Exit(1) /\ stderr_lines' = stderr_lines + 1
              ELSE /\ pc' = "check_exists"
                   /\ UNCHANGED <<exit_status, stderr_lines>>
    /\ UNCHANGED <<input_state, argv, printed, dir_created, attempts, disk, title,
                   scanVars, tocVars>>

\* if (!fs::exists(markdown_path)); fs::exists throws when the status of the
\* path cannot be determined
CheckExists ==
    /\ pc = "check_exists"
    /\ \E answer \in {"exists", "missing", "inaccessible"} :
          CASE answer = "exists" ->
                 /\ pc' = "open_input"
                 /\ UNCHANGED <<input_state, exit_status, stderr_lines>>
            [] answer = "missing" ->
                 /\ input_state' = "missing"
                 /\ stderr_lines' = stderr_lines + 1
                 /\ Exit(1)
            [] answer = "inaccessible" ->
                 /\ input_state' = "inaccessible"
                 /\ Exit(AbortStatus)
                 /\ UNCHANGED stderr_lines
    /\ UNCHANGED <<argv, markdown_path, output_path, printed, dir_created,
                   attempts, disk, title, scanVars, tocVars>>

\* main without the return after the failed open of the input file
OpenInput_NoReturn ==
    /\ pc = "open_input"
    /\ \E opened \in BOOLEAN :
          IF opened
          THEN /\ input_state' = "ok"
               /\ UNCHANGED stderr_lines
          ELSE /\ input_state' = "unreadable"
               /\ stderr_lines' = stderr_lines + 1
    /\ pc' = "scan"
    /\ UNCHANGED <<argv, markdown_path, output_path, exit_status, printed,
                   dir_created, attempts, disk, title, scanVars, tocVars>>

\* std::ifstream md_file(markdown_path); if (!md_file); the content is read
OpenInput ==
    /\ pc = "open_input"
    /\ \E opened \in BOOLEAN :
          IF opened
          THEN /\ input_state' = "ok"
               /\ pc' = "scan"
               /\ UNCHANGED <<exit_status, stderr_lines>>
          ELSE /\ input_state' = "unreadable"
               /\ stderr_lines' = stderr_lines + 1
               /\ Exit(1)
    /\ UNCHANGED <<argv, markdown_path, output_path, printed, dir_created,
                   attempts, disk, title, scanVars, tocVars>>

\* output_dir is created when it is named and missing; create_directories
\* throws when it fails
MakeOutputDir ==
    /\ pc = "mkdir"
    /\ LET output_dir == parent_path(output_path)
       IN  \E exists \in BOOLEAN : \E created \in BOOLEAN :
              IF output_dir # "" /\ ~exists
              THEN IF created
                   THEN /\ dir_created' = TRUE
                        /\ pc' = "write_html"
                        /\ UNCHANGED exit_status
                   ELSE /\ Exit(AbortStatus)
                        /\ UNCHANGED dir_created
              ELSE /\ pc' = "write_html"
                   /\ UNCHANGED <<dir_created, exit_status>>
    /\ UNCHANGED <<input_state, argv, markdown_path, output_path, stderr_lines,
                   printed, attempts, disk, title, scanVars, tocVars>>

\* the title taken from the last heading instead of the first
PageTitle_Last(t) == IF t = <<>> THEN DocumentTitle ELSE t[Len(t)].text

\* std::string title = toc.empty() ? "Document" : toc[0].text
PageTitle(t) == IF t = <<>> THEN DocumentTitle ELSE t[1].text

\* the result of write_file ignored: the run goes on after a failed open
WriteFile_IgnoreFailure(f, next) ==
    /\ attempts' = Append(attempts, f)
    /\ pc' = next
    /\ UNCHANGED exit_status
    /\ \E opened \in BOOLEAN :
          IF opened
          THEN /\ disk' = disk \cup {f}
               /\ UNCHANGED stderr_lines
          ELSE /\ stderr_lines' = stderr_lines + 1
               /\ UNCHANGED disk

\* if (!write_file(path, content)) return 1; for the output file f
WriteFile(f, next) ==
    /\ attempts' = Append(attempts, f)
    /\ \E opened \in BOOLEAN :
          IF opened
          THEN /\ disk' = disk \cup {f}
               /\ pc' = next
               /\ UNCHANGED <<exit_status, stderr_lines>>
          ELSE /\ stderr_lines' = stderr_lines + 1
               /\ Exit(1)
               /\ UNCHANGED disk

WriteHtml ==
    /\ pc = "write_html"
    /\ title' = PageTitle(toc)
    /\ WriteFile("html", "write_css")
    /\ UNCHANGED <<input_state, argv, markdown_path, output_path, printed,
                   dir_created, scanVars, tocVars>>

WriteCss ==
    /\ pc = "write_css"
    /\ WriteFile("css", "write_js")
    /\ UNCHANGED <<input_state, argv, markdown_path, output_path, printed,
                   dir_created, title, scanVars, tocVars>>

WriteJs ==
    /\ pc = "write_js"
    /\ WriteFile("js", "report")
    /\ UNCHANGED <<input_state, argv, markdown_path, output_path, printed,
                   dir_created, title, scanVars, tocVars>>

\* "Successfully generated:" and the three paths; return 0
ReportSuccess ==
    /\ pc = "report"
    /\ printed' = TRUE
    /\ Exit(0)
    /\ UNCHANGED <<input_state, argv, markdown_path, output_path, stderr_lines,
                   dir_created, attempts, disk, title, scanVars, tocVars>>

(***************************************************************************)
(* Specifications.                                                         *)
(***************************************************************************)
MainIdle ==
    /\ input_state = "unknown"
    /\ markdown_path = ""
    /\ output_path = ""
    /\ exit_status = -1
    /\ stderr_lines = 0
    /\ printed = FALSE
    /\ dir_created = FALSE
    /\ attempts = <<>>
    /\ disk = {}
    /\ title = <<>>

TocIdle ==
    /\ toc_html = <<>>
    /\ current_level = 1
    /\ toc_i = 1

\* the whole program, from main's entry
Init ==
    /\ pc = "parse_args"
    /\ argv \in ArgvChoices
    /\ MainIdle
    /\ ScanInit
    /\ TocIdle

Next ==
    \/ ParseArgs
    \/ CheckExists
    \/ OpenInput
    \/ ScanLine(MaxMainLines)
    \/ ScanEnd
    \/ TocBegin
    \/ TocOpenLevel
    \/ TocCloseLevel
    \/ TocEmitItem
    \/ TocFinalClose
    \/ TocEnd
    \/ MakeOutputDir
    \/ WriteHtml
    \/ WriteCss
    \/ WriteJs
    \/ ReportSuccess

Spec == Init /\ [][Next]_vars

\* markdown_to_html alone, on every document of at most MaxLines lines
InitScan ==
    /\ pc = "scan"
    /\ argv = <<>>
    /\ MainIdle
    /\ ScanInit
    /\ TocIdle

NextScan ==
    \/ ScanLine(MaxLines)
    \/ ScanEnd

SpecScan == InitScan /\ [][NextScan]_vars

\* the line of n hashes, a space and the text A
HashLine(n) == [i \in 1..n |-> "#"] \o <<" ", "A">>

HeadingLines == {HashLine(n) : n \in 1..7}

\* one iteration of while (std::getline(iss, line)) on a line of hashes
ScanHeadingLine ==
    /\ pc = "scan"
    /\ nread < MaxHeadingLines
    /\ \E l \in HeadingLines : ProcessLine(l)
    /\ UNCHANGED <<pc, tocVars, mainVars>>

\* markdown_to_html, then generate_toc_html, on every document of at most
\* MaxHeadingLines lines of one to seven hashes
NextHeadings ==
    \/ ScanHeadingLine
    \/ ScanEnd
    \/ TocBegin
    \/ TocOpenLevel
    \/ TocCloseLevel
    \/ TocEmitItem
    \/ TocFinalClose
    \/ TocEnd

SpecHeadings == InitScan /\ [][NextHeadings]_vars

\* the headings of a document whose heading lines have the given levels and
\* all carry the text "A", as markdown_to_html records them
RECURSIVE HeadingsOf(_, _, _)
HeadingsOf(levels, acc, counts) ==
    IF levels = <<>> THEN acc
    ELSE LET r == generate_unique_id(<<"A">>, counts)
         IN  HeadingsOf(Tail(levels),
                        Append(acc, [level |-> Head(levels), text |-> <<"A">>, id |-> r.id]),
                        r.id_counts)

LevelSeqs == UNION {[1..n -> 1..6] : n \in 0..MaxToc}

\* generate_toc_html alone, on every heading sequence of at most MaxToc entries
InitToc ==
    /\ pc = "toc"
    /\ argv = <<>>
    /\ MainIdle
    /\ line = <<>>
    /\ nread = 0
    /\ html = <<>>
    /\ \E levels \in LevelSeqs : toc = HeadingsOf(levels, <<>>, EmptyMap)
    /\ in_code_block = FALSE
    /\ in_table = FALSE
    /\ code_lang = <<>>
    /\ table_rows = <<>>
    /\ id_counts = EmptyMap
    /\ TocIdle

NextToc ==
    \/ TocBegin
    \/ TocOpenLevel
    \/ TocCloseLevel
    \/ TocEmitItem
    \/ TocFinalClose
    \/ TocEnd

SpecToc == InitToc /\ [][NextToc]_vars

(***************************************************************************)
(* Properties.                                                             *)
(***************************************************************************)
IsKind(tok, kind) == tok[1] = kind

IsHeadingToken(tok) == IsKind(tok, "<h>")
IsTableOpen(tok)    == IsKind(tok, "<table>")
IsTableClose(tok)   == IsKind(tok, "</table>")
IsRowOpen(tok)      == IsKind(tok, "<tr>")
IsRowClose(tok)     == IsKind(tok, "</tr>")
IsHeaderCell(tok)   == IsKind(tok, "<th>")
IsBodyCell(tok)     == IsKind(tok, "<td>")
IsListOpen(tok)     == IsKind(tok, "<ul>")
IsListClose(tok)    == IsKind(tok, "</ul>")
IsListItem(tok)     == IsKind(tok, "<li>")
IsTocHeader(tok)    == tok = TocHeader

Count(seq, Test(_)) == Len(SelectSeq(seq, Test))

NonEmptyRow(row) == row # <<>>

RECURSIVE ConcatAll(_)
ConcatAll(seqs) == IF seqs = <<>> THEN <<>> ELSE Head(seqs) \o ConcatAll(Tail(seqs))

LevelsOf(t) == [i \in 1..Len(t) |-> t[i].level]

\* the base id of a heading record
BaseOf(entry) == sanitize_id(entry.text)

\* tokens is one table element showing rows: the first non-empty row as header
\* cells, every later non-empty row as body cells, one row element per
\* non-empty row
TableShape(tokens, rows) ==
    LET ne == SelectSeq(rows, NonEmptyRow)
    IN  /\ Len(tokens) >= 2
        /\ IsTableOpen(tokens[1])
        /\ IsTableClose(tokens[Len(tokens)])
        /\ Count(tokens, IsTableOpen) = 1
        /\ Count(tokens, IsTableClose) = 1
        /\ Count(tokens, IsRowOpen) = Len(ne)
        /\ Count(tokens, IsRowClose) = Len(ne)
        /\ Len(tokens) = 2 + 2 * Len(ne) + Len(ConcatAll(ne))
        /\ SelectSeq(tokens, IsHeaderCell) =
              IF ne = <<>> THEN <<>> ELSE [i \in 1..Len(ne[1]) |-> <<"<th>", ne[1][i]>>]
        /\ SelectSeq(tokens, IsBodyCell) =
              IF ne = <<>> THEN <<>>
              ELSE LET cells == ConcatAll(Tail(ne))
                   IN  [i \in 1..Len(cells) |-> <<"<td>", cells[i]>>]
        /\ ne # <<>> =>
              /\ IsRowOpen(tokens[2])
              /\ \A i \in 3..(2 + Len(ne[1])) : IsHeaderCell(tokens[i])

\* the tokens a step appended to the body, up to the first closing table tag
EmittedTable ==
    LET from == Len(html) + 1
        ends == {i \in from..Len(html') : IsTableClose(html'[i])}
    IN  IF ends = {} THEN <<>>
        ELSE SubSeq(html', from, CHOOSE i \in ends : \A j \in ends : i <= j)

\* a pipe-free line flushes the active table
MidFlushStep == pc = "scan" /\ pc' = "scan" /\ in_table /\ ~in_table'

\* the end of the input flushes the active table
EndFlushStep == pc = "scan" /\ pc' = "toc" /\ in_table /\ table_rows # <<>>

\* C1: all heading ids recorded during one run of markdown_to_html are
\* pairwise distinct, also when a heading's own text sanitizes to base-N.
C1_HeadingIdsDistinct ==
    \A i, j \in 1..Len(toc) : i # j => toc[i].id # toc[j].id

\* C2: the first heading of a base id gets the base unmodified, its k-th later
\* repeat gets base-k, and the registry holds exactly the bases seen, each
\* with the number of its repeats so far.
C2_RepeatCounters ==
    /\ \A i \in 1..Len(toc) :
          LET base == BaseOf(toc[i])
              k    == Cardinality({j \in 1..(i - 1) : BaseOf(toc[j]) = base})
          IN  toc[i].id = IF k = 0 THEN base ELSE base \o <<"-">> \o to_string(k)
    /\ DOMAIN id_counts = {BaseOf(toc[i]) : i \in 1..Len(toc)}
    /\ \A base \in DOMAIN id_counts :
          id_counts[base] = Cardinality({j \in 1..Len(toc) : BaseOf(toc[j]) = base}) - 1

\* a base repeated twice next to another base
C2_Witness ==
    /\ Cardinality(DOMAIN id_counts) >= 2
    /\ \E base \in DOMAIN id_counts : id_counts[base] = 2

\* C3: when generate_toc_html has returned for a non-empty heading sequence
\* the depth is back to 1 and nested lists opened = nested lists closed; for
\* the levels 1,2,3,2,1 the events are item, open, item, open, item, close,
\* item, close, item.
C3_TocFullyClosed ==
    (pc = "mkdir" /\ toc # <<>>) =>
        /\ current_level = 1
        /\ Count(toc_html, IsListOpen) = Count(toc_html, IsListClose)
        /\ LevelsOf(toc) = <<1, 2, 3, 2, 1>> =>
              [i \in 1..Len(toc_html) |-> toc_html[i][1]] =
                 <<TocHeader[1], "<li>", "<ul>", "<li>", "<ul>", "<li>",
                   "</ul>", "<li>", "</ul>", "<li>", TocFooter[1]>>

C3_Witness == pc = "mkdir" /\ LevelsOf(toc) = <<1, 2, 3, 2, 1>>

\* C4: generate_toc_html returns the empty string exactly for the empty
\* heading sequence; otherwise the result is the container with exactly one
\* list item per heading, in heading order.
C4_TocIffHeadings ==
    pc = "mkdir" =>
        /\ toc = <<>> <=> toc_html = <<>>
        /\ toc # <<>> =>
              /\ toc_html[1] = TocHeader
              /\ toc_html[Len(toc_html)] = TocFooter
              /\ Count(toc_html, IsTocHeader) = 1
              /\ SelectSeq(toc_html, IsListItem) =
                    [i \in 1..Len(toc) |-> <<"<li>", toc[i].id, toc[i].text>>]

C4_Witness == pc = "mkdir" /\ toc = <<>> /\ toc_html = <<>>

\* C5: the table emitted by the flush inside the line loop and the table
\* emitted by the flush at the end of the input are, for the same buffered
\* rows, the same table: one table element, the first non-empty row as header
\* cells, every later non-empty row as body cells, one row element per
\* non-empty row.
C5_SameTableMidAndEnd ==
    [][ /\ MidFlushStep =>
             /\ TableShape(EmittedTable, table_rows)
             /\ EmittedTable = FlushTableAtEnd(table_rows)
        /\ EndFlushStep =>
             /\ TableShape(EmittedTable, table_rows)
             /\ EmittedTable = FlushTable(table_rows)
             /\ html' = html \o EmittedTable ]_vars

\* a table of three rows flushed by a pipe-free line
C5_Witness ==
    /\ pc = "scan"
    /\ Count(html, IsTableOpen) = 1
    /\ Count(html, IsRowOpen) = 3
    /\ Count(html, IsHeaderCell) = 2
    /\ Count(html, IsBodyCell) = 4

\* C6: when the input ends with rows (of at least one cell) in the table
\* buffer the returned body holds a table with the buffered rows.
C6_BufferFlushedAtEnd ==
    (pc = "toc" /\ SelectSeq(table_rows, NonEmptyRow) # <<>>) =>
        \E i \in 1..Len(html) : \E j \in i..Len(html) :
            TableShape(SubSeq(html, i, j), table_rows)

\* C7: in code-block mode every line that is not the closing fence is
\* appended to the body verbatim as code content, and nothing else is.
C7_CodeLinesVerbatim ==
    [][ (pc = "scan" /\ nread' = nread + 1 /\ in_code_block /\ ~code_block_regex(line'))
           => html' = Append(html, <<"text", line'>>) ]_vars

\* C8: if the input file is missing or cannot be opened the run ends with
\* status 1, creates no directory, opens no output file and prints no
\* success message.
C8_BadInputNoOutput ==
    input_state \in {"missing", "unreadable"} =>
        /\ pc = "done"
        /\ exit_status = 1
        /\ ~dir_created
        /\ attempts = <<>>
        /\ disk = {}
        /\ ~printed

C8_Witness == pc = "done" /\ input_state = "unreadable" /\ stderr_lines = 1

\* C9: the output files are attempted in the order HTML, styles.css,
\* script.js; the run reports success exactly when all three were opened;
\* when a write fails the files written before it stay, and the files after
\* it are never attempted.
C9_SuccessIffAllWritten ==
    /\ attempts = SubSeq(OutputFiles, 1, Len(attempts))
    /\ printed <=> exit_status = 0
    /\ pc = "done" =>
          IF disk = Range(OutputFiles)
          THEN exit_status = 0 /\ printed /\ attempts = OutputFiles
          ELSE /\ exit_status > 0
               /\ ~printed
               /\ disk = Range(SubSeq(attempts, 1, Len(attempts) - 1))

\* the second write failed: the HTML file stays and script.js was not attempted
C9_Witness ==
    /\ pc = "done"
    /\ attempts = <<"html", "css">>
    /\ disk = {"html"}
    /\ exit_status = 1

\* C10: the page title is the text of the first heading of the document,
\* whatever its level, and "Document" when the document has no heading.
C10_TitleFirstHeading ==
    attempts # <<>> =>
        LET headings == SelectSeq(html, IsHeadingToken)
        IN  /\ Len(headings) = Len(toc)
            /\ title = IF headings = <<>> THEN DocumentTitle ELSE headings[1][4]
            /\ toc # <<>> => title = toc[1].text

\* the first heading is of level 2 and a level 1 heading follows
C10_Witness ==
    /\ attempts # <<>>
    /\ Len(toc) >= 2
    /\ toc[1].level = 2
    /\ toc[2].level = 1
    /\ title = <<"B", " ", "c">>

\* a line is read and processed
ReadStep == pc = "scan" /\ nread' = nread + 1

\* C11: a non-blank line without a pipe that arrives while a table is active
\* with buffered rows (of at least one cell) flushes the table: afterwards the buffer is empty, table
\* mode is off, and the table stands in the body before the output of the
\* line itself.
C11_PipeFreeLineFlushes ==
    [][ (/\ ReadStep
         /\ in_table
         /\ SelectSeq(table_rows, NonEmptyRow) # <<>>
         /\ line' # <<>>
         /\ ~HasPipe(line'))
           => /\ table_rows' = <<>>
              /\ ~in_table'
              /\ TableShape(EmittedTable, table_rows)
              /\ Len(html') > Len(html) + Len(EmittedTable) ]_vars

\* positions of the list items in the TOC built so far
TocItemPositions == {p \in 1..Len(toc_html) : IsListItem(toc_html[p])}

\* position of the k-th list item; 1, the container's opening, for k = 0
TocItemPos(k) ==
    IF k = 0 THEN 1
    ELSE CHOOSE p \in TocItemPositions :
             Cardinality({q \in TocItemPositions : q < p}) = k - 1

\* nesting depth of the lists open in front of position p
TocDepthAt(p) ==
    1 + Count(SubSeq(toc_html, 1, p - 1), IsListOpen)
      - Count(SubSeq(toc_html, 1, p - 1), IsListClose)

\* C12: when a heading's list item is emitted the depth equals the heading's
\* level: in front of the item exactly (level - depth) lists are opened when
\* the level is deeper and exactly (depth - level) closed when it is
\* shallower; one item per heading, in heading order.
C12_ItemAtHeadingLevel ==
    LET n == Cardinality(TocItemPositions)
    IN  /\ n <= Len(toc)
        /\ pc = "mkdir" => n = Len(toc)
        /\ current_level = TocDepthAt(Len(toc_html) + 1)
        /\ \A k \in 1..n :
              LET p     == TocItemPos(k)
                  q     == TocItemPos(k - 1)
                  from  == IF k = 1 THEN 1 ELSE toc[k - 1].level
                  level == toc[k].level
                  between == SubSeq(toc_html, q + 1, p - 1)
              IN  /\ toc_html[p] = TocItem(toc[k])
                  /\ TocDepthAt(p) = level
                  /\ level > from => between = [i \in 1..(level - from) |-> TocOpen]
                  /\ level < from => between = [i \in 1..(from - level) |-> TocClose]
                  /\ level = from => between = <<>>

\* a first heading of level 3, then a jump from level 1 to level 4
C12_Witness == pc = "mkdir" /\ LevelsOf(toc) = <<3, 1, 4>>

\* C13: table mode is switched on only by a divider line that finds rows in
\* the buffer, a divider that finds the buffer empty leaves it off; so table
\* mode on implies a non-empty buffer, and the buffer is emptied exactly when
\* a flush switches table mode off.
C13_TableModeNeedsRows ==
    /\ [](in_table => table_rows # <<>>)
    /\ [][ /\ (~in_table /\ in_table') =>
                 /\ ReadStep
                 /\ table_divider_regex(line')
                 /\ table_rows # <<>>
                 /\ table_rows' = table_rows
           /\ (ReadStep /\ table_divider_regex(line') /\ table_rows = <<>>) => ~in_table'
           /\ (table_rows # <<>> /\ table_rows' = <<>>) <=> (in_table /\ ~in_table')
           /\ (in_table /\ ~in_table') => TableShape(EmittedTable, table_rows) ]_vars

\* a divider has switched table mode on with two rows buffered
C13_Witness ==
    /\ pc = "scan"
    /\ in_table
    /\ line = LineDivider
    /\ Len(table_rows) = 2

\* a divider line is read outside a code block while no row is buffered
StrayDividerStep ==
    ReadStep /\ ~in_code_block /\ table_divider_regex(line') /\ table_rows = <<>>

\* C14 as stated: a divider line that arrives outside code-block mode when no
\* row is buffered is dropped: nothing is appended to the body, no row is
\* buffered and no heading recorded.
C14_StrayDividerDropped ==
    [][ StrayDividerStep =>
           /\ html' = html
           /\ table_rows' = table_rows
           /\ toc' = toc ]_vars

\* C14 as amended: such a divider line is rendered as a paragraph holding the
\* line; it buffers no row, records no heading and leaves table mode off.
C14_StrayDividerParagraph ==
    [][ StrayDividerStep =>
           /\ html' = Append(html, <<"<p>", line'>>)
           /\ table_rows' = <<>>
           /\ toc' = toc
           /\ id_counts' = id_counts
           /\ ~in_table' ]_vars

\* a divider was read first thing and stands in the body as a paragraph
C14_Witness ==
    /\ pc = "scan"
    /\ line = LineDivider
    /\ table_rows = <<>>
    /\ ~in_table
    /\ html # <<>>
    /\ html[Len(html)] = <<"<p>", LineDivider>>

IsCodeOpen(tok)  == IsKind(tok, "<pre><code>")
IsCodeClose(tok) == IsKind(tok, "</code></pre>")

\* C15: in code-block mode a line that is not a fence leaves the heading
\* sequence, the id registry, the table buffer and the table-mode flag
\* unchanged.
C15_CodeLinesLeaveStateAlone ==
    [][ (ReadStep /\ in_code_block /\ ~code_block_regex(line'))
           => UNCHANGED <<toc, id_counts, table_rows, in_table>> ]_vars

\* a heading-like line and a row-like line were read inside a code block
C15_Witness ==
    /\ pc = "scan"
    /\ in_code_block
    /\ line = LineRow
    /\ toc = <<>>
    /\ table_rows = <<>>
    /\ Len(html) = 3
    /\ html[2] = <<"text", LineH1A>>
    /\ html[3] = <<"text", LineRow>>

\* C16: every fence line toggles code-block mode, emitting the opening tag
\* when the mode was off and the closing tag when it was on: opening tags
\* minus closing tags is 1 in code-block mode and 0 otherwise, also after the
\* end of the input (no closing tag is made up).
C16_FencesAlternate ==
    /\ [](Count(html, IsCodeOpen) - Count(html, IsCodeClose)
             = IF in_code_block THEN 1 ELSE 0)
    /\ [][ (ReadStep /\ code_block_regex(line')) =>
              /\ in_code_block' = ~in_code_block
              /\ IsKind(html'[Len(html')], IF in_code_block THEN "</code></pre>"
                                                            ELSE "<pre><code>")
              /\ Len(html') = Len(html) + 1 ]_vars

\* the input ended inside the second code block of the document
C16_Witness ==
    /\ pc = "toc"
    /\ in_code_block
    /\ Count(html, IsCodeOpen) = 2
    /\ Count(html, IsCodeClose) = 1

\* generate_toc_html has returned (or was never reached)
TocReturned == pc \in {"mkdir", "write_html", "write_css", "write_js", "report", "done"}

\* C17: the heading sequence only grows at its end; the heading elements of
\* the body are, in order, the records of the sequence (same level, id and
\* text), each heading line adding one of each; the TOC holds one link per
\* record, in the same order, to the record's id, so every link target is
\* the id of a heading element of the body.
C17_BodyAndTocAgree ==
    /\ [](SelectSeq(html, IsHeadingToken) =
             [i \in 1..Len(toc) |-> <<"<h>", toc[i].level, toc[i].id, toc[i].text>>])
    /\ [](TocReturned =>
             LET links == SelectSeq(toc_html, IsListItem)
             IN  /\ links = [i \in 1..Len(toc) |-> <<"<li>", toc[i].id, toc[i].text>>]
                 /\ \A k \in 1..Len(links) :
                       \E i \in 1..Len(html) :
                           IsHeadingToken(html[i]) /\ html[i][3] = links[k][2])
    /\ [][ /\ Len(toc') \in {Len(toc), Len(toc) + 1}
           /\ SubSeq(toc', 1, Len(toc)) = toc
           /\ (ReadStep /\ Len(toc') = Len(toc) + 1) =>
                 /\ HeadingLevel(line') = toc'[Len(toc')].level
                 /\ Count(html', IsHeadingToken) = Count(html, IsHeadingToken) + 1
                 /\ html'[Len(html')] = <<"<h>", toc'[Len(toc')].level,
                                          toc'[Len(toc')].id, toc'[Len(toc')].text>>
           /\ (ReadStep /\ ~in_code_block /\ HeadingLevel(line') # 0 /\ ~HasPipe(line'))
                 => Len(toc') = Len(toc) + 1 ]_vars

\* the TOC was built for three headings, two of them with the same text
C17_Witness ==
    /\ pc = "mkdir"
    /\ Len(toc) = 3
    /\ toc[1].id = <<"a">>
    /\ toc[2].id = <<"a", "-", "1">>
    /\ Count(toc_html, IsListItem) = 3

\* C18: body fragments stand in the order of their source lines; in
\* particular, while the rows of an active table are waiting in the buffer,
\* nothing is appended to the body in front of that table: whatever a step
\* appends starts with the table.
C18_NothingBeforePendingTable ==
    [][ (/\ pc = "scan"
         /\ in_table
         /\ SelectSeq(table_rows, NonEmptyRow) # <<>>
         /\ html' # html)
           => /\ Len(html') > Len(html)
              /\ SubSeq(html', 1, Len(html)) = html
              /\ IsTableOpen(html'[Len(html) + 1])
              /\ TableShape(EmittedTable, table_rows) ]_vars

\* C19: the header row of a table is the row of the line in front of the
\* divider that started the table (blank lines aside); a row buffered earlier,
\* with no divider after it, is not the header of a later table.
C19_HeaderPrecedesDivider ==
    [][ (/\ ReadStep
         /\ ~in_table
         /\ in_table'
         /\ SelectSeq(table_rows, NonEmptyRow) # <<>>
         /\ line # <<>>
         /\ line # LineEmptyRow)
           => /\ HasPipe(line)
              /\ Head(SelectSeq(table_rows, NonEmptyRow)) = RowCells(line) ]_vars

\* C20: every heading record has a level in 1..6, a line of seven or more
\* hashes makes no record, and the depth tracked by generate_toc_html stays
\* within 1..6.
C20_LevelsAndDepthInRange ==
    /\ [](\A i \in 1..Len(toc) : toc[i].level \in 1..6)
    /\ [](current_level \in 1..6)
    /\ [][ (ReadStep /\ LeadCount(line', IsHash) >= 7) =>
              /\ toc' = toc
              /\ html' = Append(html, <<"<p>", line'>>) ]_vars

\* the builder is at depth 6 for a document that also holds a line of seven hashes
C20_Witness ==
    /\ pc = "toc_loop"
    /\ current_level = 6
    /\ Len(toc) >= 2
    /\ \E i \in 1..Len(html) : html[i] = <<"<p>", HashLine(7)>>

====
